---- MODULE Spec2Model ----
(***************************************************************************)
(* Model of build_LRC.py: the IGRA2 station-text parser parse_zipped_text  *)
(* (header scan, per-sounding assembly, concatenation) and the driver      *)
(* get_soundings_from_tar / __main__ that fans it out over tar archives.   *)
(*                                                                         *)
(* A text line is a record of its fixed-width fields.  A header line has   *)
(* kind "#", a data line kind "d".  Float64 values are exact rationals     *)
(* [nan, n, d]; NaN is the value with nan = TRUE.  Datetimes are records   *)
(* [y, m, d, hh, mi]; the float NaN stored for an unknown release time is  *)
(* the record NaT.                                                         *)
(***************************************************************************)
EXTENDS Integers, Sequences, FiniteSets, TLC

VARIABLES
    lines,          \* parse_zipped_text: the decoded lines of the station text
    strictDrop,     \* whether DataFrame.drop rejects a missing column (library build)
    pc,             \* parse_zipped_text: "start", "loop", "concat", "done", "error"
    header_indices, \* parse_zipped_text: indices of the lines starting with '#'
    hpos,           \* parse_zipped_text: position of the for loop in header_indices
    all_dfs,        \* parse_zipped_text: the soundings appended so far
    station_df,     \* parse_zipped_text: the returned Station Table
    error,          \* parse_zipped_text: the exception that ended the call
    input_data,     \* __main__: the tar archives of input_data/, in sorted order
    dpc,            \* driver position
    tarpos,         \* __main__: index of the tar being processed
    mempos,         \* get_soundings_from_tar: index of the member being scanned
    zip_bytes,      \* get_soundings_from_tar: local zip_bytes (Unbound before set)
    txts_to_read,   \* get_soundings_from_tar: local txts_to_read
    all_txts,       \* get_soundings_from_tar: local all_txts
    futures,        \* get_soundings_from_tar: the futures returned by dask_client.map
    main_dfs,       \* __main__: all_dfs
    final,          \* __main__: the table written to radiosondes.parquet
    derror          \* driver: the exception that ended the run

wvars == <<lines, strictDrop, pc, header_indices, hpos, all_dfs, station_df, error>>
dvars == <<input_data, dpc, tarpos, mempos, zip_bytes, txts_to_read, all_txts,
           futures, main_dfs, final, derror>>
vars == <<wvars, dvars>>

----------------------------------------------------------------------------
(* Bounds of the model *)

MaxLines == 4
MaxRec == 2

----------------------------------------------------------------------------
(* Float64 values *)

NaN == [nan |-> TRUE, n |-> 0, d |-> 1]
F(x) == [nan |-> FALSE, n |-> x, d |-> 1]
IsNaN(v) == v.nan
FDiv(v, k) == IF v.nan THEN NaN ELSE [nan |-> FALSE, n |-> v.n, d |-> v.d * k]
FSub(a, b) == IF a.nan \/ b.nan THEN NaN
              ELSE [nan |-> FALSE, n |-> a.n * b.d - b.n * a.d, d |-> a.d * b.d]
FMulInt(v, k) == IF v.nan THEN NaN ELSE [nan |-> FALSE, n |-> v.n * k, d |-> v.d]
\* equality of two floats as numbers; NaN equals nothing
FEq(a, b) == ~a.nan /\ ~b.nan /\ a.n * b.d = b.n * a.d
\* same float: both NaN, or numerically equal
FSame(a, b) == (a.nan /\ b.nan) \/ FEq(a, b)
\* Python / polars floor division and modulo of a float by 100
FFloorDiv(v, k) == IF v.nan THEN NaN ELSE F((v.n \div v.d) \div k)
FMod(v, k) == IF v.nan THEN NaN ELSE F((v.n \div v.d) % k)

Min(a, b) == IF a < b THEN a ELSE b
SeqOf(n, v) == [i \in 1..n |-> v]

----------------------------------------------------------------------------
(* datetime and timedelta *)

NaT == [nat |-> TRUE]
IsLeap(y) == (y % 4 = 0) /\ ((y % 100 # 0) \/ (y % 400 = 0))
DaysInMonth(y, m) ==
    IF m = 2 THEN (IF IsLeap(y) THEN 29 ELSE 28)
    ELSE IF m \in {4, 6, 9, 11} THEN 30 ELSE 31
\* datetime(y, m, d, hh, mi) raises ValueError outside these ranges
DtValid(y, m, d, hh, mi) ==
    /\ y \in 1..9999
    /\ m \in 1..12
    /\ d >= 1 /\ d <= DaysInMonth(y, m)
    /\ hh \in 0..23
    /\ mi \in 0..59
Dt(y, m, d, hh, mi) == [y |-> y, m |-> m, d |-> d, hh |-> hh, mi |-> mi]

\* proleptic Gregorian ordinal, 1 January of year 1 being day 1
DaysBeforeYear(y) ==
    (y - 1) * 365 + ((y - 1) \div 4) - ((y - 1) \div 100) + ((y - 1) \div 400)
RECURSIVE DaysBeforeMonth(_, _)
DaysBeforeMonth(y, m) == IF m <= 1 THEN 0
                         ELSE DaysBeforeMonth(y, m - 1) + DaysInMonth(y, m - 1)
ToOrdinal(t) == DaysBeforeYear(t.y) + DaysBeforeMonth(t.y, t.m) + t.d
RECURSIVE YearOfOrdinal(_, _)
YearOfOrdinal(o, y) == IF o <= DaysBeforeYear(y + 1) THEN y ELSE YearOfOrdinal(o, y + 1)
RECURSIVE MonthOfDay(_, _, _)
MonthOfDay(y, doy, m) == IF doy <= DaysBeforeMonth(y, m + 1) THEN m
                         ELSE MonthOfDay(y, doy, m + 1)
FromOrdinal(o, hh, mi) ==
    LET y == YearOfOrdinal(o, (o \div 366) + 1)
        doy == o - DaysBeforeYear(y)
        m == MonthOfDay(y, doy, 1)
    IN Dt(y, m, doy - DaysBeforeMonth(y, m), hh, mi)
\* t + timedelta(days, hours, minutes)
AddDelta(t, days, hours, minutes) ==
    LET tot == (ToOrdinal(t) + days) * 1440 + (t.hh + hours) * 60 + t.mi + minutes
        o == tot \div 1440
        r == tot % 1440
    IN FromOrdinal(o, r \div 60, r % 60)

----------------------------------------------------------------------------
(* The fixed-width record layout and the data frame *)

names == <<"major_level_indicator", "minor_level_indicator", "elapsed_time",
           "air_pressure", "pflag", "geopotential_height", "zflag",
           "air_temperature", "tflag", "relative_humidity", "dewpoint_depression",
           "wind_from_direction", "wind_speed">>
StringNames == {"pflag", "zflag", "tflag"}
Range(s) == {s[i] : i \in 1..Len(s)}

\* a data frame: column names in order, a dtype and a value sequence per column
Cols(df) == Range(df.columns)
HasCol(df, c) == c \in Cols(df)
WithColumn(df, c, ty, vals) ==
    [columns |-> IF HasCol(df, c) THEN df.columns ELSE Append(df.columns, c),
     dtype   |-> [x \in Cols(df) \cup {c} |-> IF x = c THEN ty ELSE df.dtype[x]],
     data    |-> [x \in Cols(df) \cup {c} |-> IF x = c THEN vals ELSE df.data[x]],
     height  |-> df.height]
DropCols(df, S) ==
    [columns |-> SelectSeq(df.columns, LAMBDA c : c \notin S),
     dtype   |-> [x \in Cols(df) \ S |-> df.dtype[x]],
     data    |-> [x \in Cols(df) \ S |-> df.data[x]],
     height  |-> df.height]
\* df.with_columns(pl.col(c) / k)
DivCol(df, c, k) ==
    WithColumn(df, c, df.dtype[c], [i \in 1..df.height |-> FDiv(df.data[c][i], k)])

\* lines_arr[header_idx+1 : header_idx+num_rec+1]: a slice stops at the end
DataLines(ls, header_idx, num_rec) ==
    SubSeq(ls, header_idx + 1, Min(header_idx + num_rec, Len(ls)))

\* str.slice + replace_all + cast: the typed columns of the data lines
SplitAndCast(data) ==
    [columns |-> names,
     dtype   |-> [c \in Range(names) |->
                    IF c \in StringNames THEN "String"
                    ELSE IF c \in {"major_level_indicator", "minor_level_indicator"}
                         THEN "UInt8" ELSE "Int32"],
     data    |-> [c \in Range(names) |-> [i \in 1..Len(data) |-> data[i][c]]],
     height  |-> Len(data)]

Sentinels == {-9999, -8888}
\* the replacement with the second sentinel forgotten
ReplaceValueOnly9999(v) == IF v = -9999 THEN NaN ELSE F(v)
ReplaceValue(v) == IF v \in Sentinels THEN NaN ELSE F(v)
\* pl.when(is_in([-9999, -8888])).then(nan).otherwise(col) on every non-String column
ReplaceMissing(df) ==
    [columns |-> df.columns,
     dtype   |-> [c \in Cols(df) |-> IF df.dtype[c] = "String" THEN "String" ELSE "Float64"],
     data    |-> [c \in Cols(df) |->
                    IF df.dtype[c] = "String" THEN df.data[c]
                    ELSE [i \in 1..df.height |-> ReplaceValue(df.data[c][i])]],
     height  |-> df.height]

UnitConversions(df) ==
    LET a == DivCol(df, "air_pressure", 100)
        b == DivCol(a, "air_temperature", 10)
        c == WithColumn(b, "dew_point_temperature", "Float64",
                 [i \in 1..b.height |->
                    FSub(b.data["air_temperature"][i],
                         FDiv(b.data["dewpoint_depression"][i], 10))])
    IN DivCol(c, "wind_speed", 10)

\* sine and cosine of a direction, exact on the multiples of 90 degrees; a direction
\* between two of them is taken at the nearest one
Quarter(deg) == (((deg % 360) + 45) \div 90) % 4
Sin90(deg) == CASE Quarter(deg) = 0 -> 0 [] Quarter(deg) = 1 -> 1
                [] Quarter(deg) = 2 -> 0 [] Quarter(deg) = 3 -> -1
Cos90(deg) == CASE Quarter(deg) = 0 -> 1 [] Quarter(deg) = 1 -> 0
                [] Quarter(deg) = 2 -> -1 [] Quarter(deg) = 3 -> 0
\* metpy wind_components: u = -speed*sin(dir), v = -speed*cos(dir)
WindU(speed, dir) == IF speed.nan \/ dir.nan THEN NaN
                     ELSE FMulInt(speed, -Sin90(dir.n \div dir.d))
WindV(speed, dir) == IF speed.nan \/ dir.nan THEN NaN
                     ELSE FMulInt(speed, -Cos90(dir.n \div dir.d))
WindComponents(df) ==
    LET u == [i \in 1..df.height |->
                WindU(df.data["wind_speed"][i], df.data["wind_from_direction"][i])]
        v == [i \in 1..df.height |->
                WindV(df.data["wind_speed"][i], df.data["wind_from_direction"][i])]
    IN WithColumn(WithColumn(df, "eastward_wind", "Float64", u),
                  "northward_wind", "Float64", v)

\* df.filter(minor_level_indicator == 1)['geopotential_height']
IsSurface(v) == FEq(v, F(1))
RECURSIVE SurfaceIdx(_, _)
SurfaceIdx(df, i) ==
    IF i > df.height THEN <<>>
    ELSE (IF IsSurface(df.data["minor_level_indicator"][i]) THEN <<i>> ELSE <<>>)
         \o SurfaceIdx(df, i + 1)
SurfaceHeights(df) ==
    LET idx == SurfaceIdx(df, 1)
    IN [k \in 1..Len(idx) |-> df.data["geopotential_height"][idx[k]]]

\* the columns the "all NaN or empty strings" loop removes
AllMissing(df, c) ==
    IF df.dtype[c] = "Float64" THEN \A i \in 1..df.height : IsNaN(df.data[c][i])
    ELSE IF df.dtype[c] = "String" THEN \A i \in 1..df.height : df.data[c][i] = ""
    ELSE FALSE
DropAllMissing(df) == DropCols(df, {c \in Cols(df) : AllMissing(df, c)})

Unused == {"pflag", "zflag", "tflag",
           "major_level_indicator", "minor_level_indicator", "dewpoint_depression"}

----------------------------------------------------------------------------
(* parse_zipped_text: one iteration of the loop over the headers *)

Raise(e) == [ok |-> FALSE, exc |-> e]
IsHeader(l) == l.kind = "#"

\* np.argwhere(startswith(lines_arr, '#')).flatten()
RECURSIVE HeaderIndicesFrom(_, _)
HeaderIndicesFrom(ls, i) ==
    IF i > Len(ls) THEN <<>>
    ELSE (IF IsHeader(ls[i]) THEN <<i>> ELSE <<>>) \o HeaderIndicesFrom(ls, i + 1)
HeaderIndices(ls) == HeaderIndicesFrom(ls, 1)

\* decode, sentinel replacement, unit conversion, dew point, wind components
Decoded(data) == WindComponents(UnitConversions(ReplaceMissing(SplitAndCast(data))))

\* the variant that takes the first of several surface records instead of raising
LaunchMslFirst(df) ==
    LET s == SurfaceHeights(df)
    IN IF Len(s) >= 1 THEN [ok |-> TRUE, v |-> s[1]] ELSE [ok |-> TRUE, v |-> NaN]
\* the launch altitude: the surface record's height, NaN without one
LaunchMsl(df) ==
    LET s == SurfaceHeights(df)
    IN IF Len(s) = 1 THEN [ok |-> TRUE, v |-> s[1]]
       ELSE IF Len(s) = 0 THEN [ok |-> TRUE, v |-> NaN]
       ELSE Raise("ValueError: More than one surface record found")

\* launch_valid_time = dt(valid_year, valid_month, valid_day, valid_hour)
LaunchValidTime(h) ==
    IF DtValid(h.valid_year, h.valid_month, h.valid_day, h.valid_hour, 0)
    THEN [ok |-> TRUE, v |-> Dt(h.valid_year, h.valid_month, h.valid_day, h.valid_hour, 0)]
    ELSE Raise("ValueError: datetime")

MinuteFix(hhmm) == IF hhmm % 100 = 99 THEN hhmm - 99 ELSE hhmm
IsLateRelease(lvt, rt) == lvt.hh = 0 /\ rt.hh >= 21
\* the release time of a header whose release field is not 9999
ReleaseTime(h, lvt) ==
    LET r == MinuteFix(h.release_hhmm)
    IN IF ~DtValid(h.valid_year, h.valid_month, h.valid_day, r \div 100, r % 100)
       THEN Raise("ValueError: datetime")
       ELSE LET rt == Dt(h.valid_year, h.valid_month, h.valid_day, r \div 100, r % 100)
            IN [ok |-> TRUE,
                v |-> IF IsLateRelease(lvt, rt) THEN AddDelta(rt, -1, 0, 0) ELSE rt]

\* timedelta(hours=, minutes=) of one elapsed_time value; NaN cannot be converted
RecordTime(base, e) ==
    AddDelta(base, 0, FFloorDiv(e, 100).n, FMod(e, 100).n)
\* rec_valid_times
RecValidTimes(df, num_rec, base) ==
    IF HasCol(df, "elapsed_time")
    THEN IF \E i \in 1..df.height : IsNaN(df.data["elapsed_time"][i])
         THEN Raise("ValueError: cannot convert float NaN to integer")
         ELSE [ok |-> TRUE,
               v |-> [i \in 1..df.height |-> RecordTime(base, df.data["elapsed_time"][i])]]
    ELSE [ok |-> TRUE, v |-> SeqOf(num_rec, base)]

\* df.with_columns(site=..., ..., record_valid=...): the broadcast header columns
AddLaunchColumns(df, h, lvt, rt, msl, recs) ==
    LET n == h.num_rec
        a == WithColumn(df, "site", "String", SeqOf(n, h.station))
        b == WithColumn(a, "launch_valid_time", "Datetime", SeqOf(n, lvt))
        c == WithColumn(b, "release_time",
                        IF rt = NaT THEN "Float64" ELSE "Datetime", SeqOf(n, rt))
        d == WithColumn(c, "launch_lat", "Float64", SeqOf(n, FDiv(F(h.launch_lat), 10000)))
        e == WithColumn(d, "launch_lon", "Float64", SeqOf(n, FDiv(F(h.launch_lon), 10000)))
        f == WithColumn(e, "launch_msl", "Float64", SeqOf(n, msl))
    IN WithColumn(f, "record_valid", "Datetime", recs)

\* df.drop(...) of the unused columns: a strict drop rejects a column already gone
DropUnused(df, strict) ==
    IF strict /\ ~(Unused \subseteq Cols(df)) THEN Raise("ColumnNotFoundError")
    ELSE [ok |-> TRUE, v |-> DropCols(df, Unused)]

\* the body of "for header_idx in header_indices": a sounding or an exception
Assemble(ls, header_idx, strict) ==
    LET h == ls[header_idx]
        data == DataLines(ls, header_idx, h.num_rec)
    IN IF Len(data) = 0 THEN Raise("NoDataError: empty CSV")
       ELSE IF \E i \in 1..Len(data) : IsHeader(data[i])
       THEN Raise("InvalidOperationError: conversion from str failed")
       ELSE
       LET df == Decoded(data)
           msl == LaunchMsl(df)
       IN IF ~msl.ok THEN msl ELSE
       LET dropped == DropUnused(DropAllMissing(df), strict)
       IN IF ~dropped.ok THEN dropped ELSE
       LET lvt == LaunchValidTime(h)
       IN IF ~lvt.ok THEN lvt ELSE
       LET rt == IF h.release_hhmm # 9999 THEN ReleaseTime(h, lvt.v)
                 ELSE [ok |-> TRUE, v |-> NaT]
       IN IF ~rt.ok THEN rt ELSE
       LET recs == RecValidTimes(dropped.v, h.num_rec,
                                 IF rt.v # NaT THEN rt.v ELSE lvt.v)
       IN IF ~recs.ok THEN recs
          ELSE IF h.num_rec # dropped.v.height /\ h.num_rec # 1
          THEN Raise("ShapeError: column length does not match the frame height")
          ELSE [ok |-> TRUE,
                v |-> AddLaunchColumns(dropped.v, h, lvt.v, rt.v, msl.v, recs.v)]

\* pl.concat(dfs): vertical concatenation needs one schema
Schema(df) == [i \in 1..Len(df.columns) |-> <<df.columns[i], df.dtype[df.columns[i]]>>]
RECURSIVE ConcatData(_, _)
ConcatData(dfs, c) ==
    IF Len(dfs) = 0 THEN <<>> ELSE dfs[1].data[c] \o ConcatData(Tail(dfs), c)
RECURSIVE SumHeight(_)
SumHeight(dfs) == IF Len(dfs) = 0 THEN 0 ELSE dfs[1].height + SumHeight(Tail(dfs))
Concat(dfs) ==
    IF Len(dfs) = 0 THEN Raise("ValueError: cannot concat empty list")
    ELSE IF \E i \in 1..Len(dfs) : Schema(dfs[i]) # Schema(dfs[1])
    THEN Raise("SchemaError: frames do not have the same schema")
    ELSE [ok |-> TRUE,
          v |-> [columns |-> dfs[1].columns,
                 dtype   |-> dfs[1].dtype,
                 data    |-> [c \in Cols(dfs[1]) |-> ConcatData(dfs, c)],
                 height  |-> SumHeight(dfs)]]

\* a sounding followed by the later ones: the first exception wins
Prepend(r, rest) ==
    IF ~r.ok THEN r
    ELSE IF ~rest.ok THEN rest
    ELSE [ok |-> TRUE, v |-> <<r.v>> \o rest.v]
\* the loop over header_indices from position k on: every sounding, or the first exception
RECURSIVE AssembleFrom(_, _, _, _)
AssembleFrom(ls, his, k, strict) ==
    IF k > Len(his) THEN [ok |-> TRUE, v |-> <<>>]
    ELSE Prepend(Assemble(ls, his[k], strict), AssembleFrom(ls, his, k + 1, strict))
ConcatIfOk(a) == IF ~a.ok THEN a ELSE Concat(a.v)
\* parse_zipped_text on the lines of one station text
ParseStation(ls, strict) == ConcatIfOk(AssembleFrom(ls, HeaderIndices(ls), 1, strict))

----------------------------------------------------------------------------
(* Inputs *)

Hdr(st, y, m, d, hh, rel, n) ==
    [kind |-> "#", station |-> st, valid_year |-> y, valid_month |-> m, valid_day |-> d,
     valid_hour |-> hh, release_hhmm |-> rel, num_rec |-> n,
     launch_lat |-> 335800, launch_lon |-> -1018100]
Rec(l1, l2, et, p, pf, z, zf, t, tf, rh, dp, wd, ws) ==
    [kind |-> "d", major_level_indicator |-> l1, minor_level_indicator |-> l2,
     elapsed_time |-> et, air_pressure |-> p, pflag |-> pf, geopotential_height |-> z,
     zflag |-> zf, air_temperature |-> t, tflag |-> tf, relative_humidity |-> rh,
     dewpoint_depression |-> dp, wind_from_direction |-> wd, wind_speed |-> ws]

\* all sequences over S of length at most n
SeqsUpTo(S, n) == UNION {[1..k -> S] : k \in 0..n}

\* station texts for the header scan: headers declaring 0..MaxRec records, and
\* records with and without a surface flag, an elapsed time, quality flags
WalkHeaders == {Hdr("USM0007223", 2024, 7, 14, 12, 1130, n) : n \in 0..MaxRec}
WalkRecords ==
    {Rec(2, 1, 0, 101300, "B", 850, "B", 250, "B", 500, 50, 180, 50),
     Rec(1, 0, 130, 85000, "", 1500, "", 120, "", 400, 70, 270, 100),
     Rec(1, 0, -9999, 50000, "A", 5600, "A", -150, "A", -9999, -9999, 90, -8888),
     Rec(2, 1, -8888, 100000, "", 840, "", 240, "", 450, 60, -9999, 30)}
WalkTexts == SeqsUpTo(WalkHeaders \cup WalkRecords, MaxLines)

Unbound == [bound |-> FALSE]
Bound(v) == [bound |-> TRUE, v |-> v]

WalkerIdle ==
    /\ pc = "start" /\ header_indices = <<>> /\ hpos = 0
    /\ all_dfs = <<>> /\ station_df = <<>> /\ error = ""
DriverIdle ==
    /\ input_data = <<>> /\ dpc = "idle" /\ tarpos = 0 /\ mempos = 0
    /\ zip_bytes = Unbound /\ txts_to_read = <<>> /\ all_txts = <<>>
    /\ futures = <<>> /\ main_dfs = <<>> /\ final = <<>> /\ derror = ""

Init ==
    /\ lines \in WalkTexts
    /\ strictDrop \in BOOLEAN
    /\ WalkerIdle
    /\ DriverIdle

\* one-sounding texts for the time resolution: dates at month and year boundaries,
\* nominal hours 0, 12 and the unknown-hour code 99, release fields unknown (9999),
\* late evening, minute 99, and daytime; records with and without an elapsed time
TimeDates == {<<2024, 1, 1>>, <<2024, 3, 1>>, <<2023, 3, 1>>, <<2024, 7, 14>>,
              <<2023, 12, 31>>}
TimeHours == {0, 12, 99}
TimeReleases == {9999, 2300, 2199, 2100, 2059, 1130, 2359}
TimeHeaders(n) ==
    {Hdr("USM0007223", dd[1], dd[2], dd[3], hh, rel, n) :
        dd \in TimeDates, hh \in TimeHours, rel \in TimeReleases}
TimeElapsed == {-9999, 0, 130, 2359}
TimeRecords == {Rec(1, 0, et, 85000, "B", 1500, "B", 120, "B", 400, 70, 270, 100) :
                    et \in TimeElapsed}
TimeTexts ==
    UNION {{<<h>> \o recs : h \in TimeHeaders(n), recs \in [1..n -> TimeRecords]} :
              n \in 1..MaxRec}
CompleteRecord == Rec(1, 0, 130, 85000, "B", 1500, "B", 120, "B", 400, 70, 270, 100)
HeaderTexts == {<<h, CompleteRecord>> : h \in TimeHeaders(1)}

\* one- and two-record texts for the decoder: every numeric field of the first
\* record is a value or one of the two sentinels
FieldValue(present, sentinel, v) == IF present THEN v ELSE sentinel
DecodeRecords ==
    {Rec(1, 0, FieldValue(b[1], sn, 130), FieldValue(b[2], sn, 85000), "B",
         FieldValue(b[3], sn, 1500), "B", FieldValue(b[4], sn, 120), "B",
         FieldValue(b[5], sn, 400), FieldValue(b[6], sn, 70),
         FieldValue(b[7], sn, 270), FieldValue(b[8], sn, 100)) :
        b \in [1..8 -> BOOLEAN], sn \in Sentinels}
DecodeHeader(n) == Hdr("USM0007223", 2024, 7, 14, 12, 1130, n)
DecodeTexts ==
    {<<DecodeHeader(1), r>> : r \in DecodeRecords}
    \cup {<<DecodeHeader(2), r, CompleteRecord>> : r \in DecodeRecords}

InitTime ==
    /\ lines \in TimeTexts
    /\ strictDrop \in BOOLEAN
    /\ WalkerIdle
    /\ DriverIdle

InitHeader ==
    /\ lines \in HeaderTexts
    /\ strictDrop \in BOOLEAN
    /\ WalkerIdle
    /\ DriverIdle

InitDecode ==
    /\ lines \in DecodeTexts
    /\ strictDrop \in BOOLEAN
    /\ WalkerIdle
    /\ DriverIdle

----------------------------------------------------------------------------
(* parse_zipped_text as steps *)

\* readlines, decode, and the scan for the lines starting with '#'
ScanHeaders ==
    /\ pc = "start"
    /\ header_indices' = HeaderIndices(lines)
    /\ hpos' = 1
    /\ pc' = "loop"
    /\ UNCHANGED <<lines, strictDrop, all_dfs, station_df, error, dvars>>

\* one iteration of the loop: the sounding is appended, or the exception leaves the call
ParseSounding ==
    /\ pc = "loop"
    /\ hpos <= Len(header_indices)
    /\ LET r == Assemble(lines, header_indices[hpos], strictDrop)
       IN IF r.ok
          THEN /\ all_dfs' = Append(all_dfs, r.v)
               /\ hpos' = hpos + 1
               /\ UNCHANGED <<pc, error>>
          ELSE /\ pc' = "error"
               /\ error' = r.exc
               /\ UNCHANGED <<all_dfs, hpos>>
    /\ UNCHANGED <<lines, strictDrop, header_indices, station_df, dvars>>

\* this_station_df = pl.concat(all_dfs); return
ConcatSoundings ==
    /\ pc = "loop"
    /\ hpos > Len(header_indices)
    /\ LET r == Concat(all_dfs)
       IN IF r.ok
          THEN /\ station_df' = r.v
               /\ pc' = "done"
               /\ UNCHANGED error
          ELSE /\ pc' = "error"
               /\ error' = r.exc
               /\ UNCHANGED station_df
    /\ UNCHANGED <<lines, strictDrop, header_indices, hpos, all_dfs, dvars>>

Next == ScanHeaders \/ ParseSounding \/ ConcatSoundings

Spec == Init /\ [][Next]_vars
SpecTime == InitTime /\ [][Next]_vars
SpecHeader == InitHeader /\ [][Next]_vars
SpecDecode == InitDecode /\ [][Next]_vars

----------------------------------------------------------------------------
(* The driver: get_soundings_from_tar and __main__ *)

MaxTars == 2
MaxMembers == 2
MaxTxts == 2

\* station texts: two that parse, and one whose sounding has two surface records
\* (every flag is set and every field present, so both library builds agree on them)
SurfaceRecord == Rec(2, 1, 0, 101300, "B", 850, "B", 250, "B", 500, 50, 180, 50)
GoodTextA == <<Hdr("USM0007223", 2024, 7, 14, 12, 1130, 1), CompleteRecord>>
GoodTextB == <<Hdr("USM0007265", 2024, 7, 14, 0, 2300, 2), SurfaceRecord, CompleteRecord>>
BadText == <<Hdr("USM0007250", 2024, 7, 14, 12, 1130, 2), SurfaceRecord, SurfaceRecord>>
\* a zip archive is the sequence of its member names; TextOf is a member's content
TxtEntries == {"USM00072230-data.txt", "USM00072265-data.txt", "USM00072250-data.txt"}
TextOf(name) ==
    CASE name = "USM00072230-data.txt" -> GoodTextA
      [] name = "USM00072265-data.txt" -> GoodTextB
      [] name = "USM00072250-data.txt" -> BadText
TxtRank(name) ==
    CASE name = "USM00072230-data.txt" -> 1
      [] name = "USM00072250-data.txt" -> 2
      [] name = "USM00072265-data.txt" -> 3
\* a zip holds distinct member names, here in ascending station order
IsAscending(q) == \A i, j \in 1..Len(q) : i < j => TxtRank(q[i]) < TxtRank(q[j])
ZipFiles == {z \in SeqsUpTo(TxtEntries, MaxTxts) : IsAscending(z)}
TarMembers == {[name |-> "station.zip", bytes |-> z] : z \in ZipFiles}
              \cup {[name |-> "igra2-readme.txt", bytes |-> <<>>]}
TarFiles == SeqsUpTo(TarMembers, MaxMembers)
EndsWithZip(name) == name = "station.zip"
EndsWithTxt(name) == name \in TxtEntries

\* [txt for txt in z.namelist() if txt.endswith('.txt')]
RECURSIVE TxtNames(_)
TxtNames(z) ==
    IF Len(z) = 0 THEN <<>>
    ELSE (IF EndsWithTxt(z[1]) THEN <<z[1]>> ELSE <<>>) \o TxtNames(Tail(z))

\* parse_zipped_text(z, txt): z.open(txt) needs txt to be a member of z
ParseZippedText(z, txt, strict) ==
    IF \A i \in 1..Len(z) : z[i] # txt
    THEN Raise("KeyError: there is no item named txt in the archive")
    ELSE ParseStation(TextOf(txt), strict)

InitDriver ==
    /\ lines = <<>> /\ strictDrop = FALSE /\ pc = "idle"
    /\ header_indices = <<>> /\ hpos = 0
    /\ all_dfs = <<>> /\ station_df = <<>> /\ error = ""
    /\ input_data \in SeqsUpTo(TarFiles, MaxTars)
    /\ dpc = "main" /\ tarpos = 1 /\ mempos = 0
    /\ zip_bytes = Unbound /\ txts_to_read = <<>> /\ all_txts = <<>>
    /\ futures = <<>> /\ main_dfs = <<>> /\ final = <<>> /\ derror = ""

\* with tarfile.open(...) as t: get_soundings_from_tar(t, dask_client) begins
OpenTar ==
    /\ dpc = "main"
    /\ tarpos <= Len(input_data)
    /\ dpc' = "scan"
    /\ mempos' = 1
    /\ all_txts' = <<>>
    /\ zip_bytes' = Unbound
    /\ txts_to_read' = <<>>
    /\ futures' = <<>>
    /\ UNCHANGED <<wvars, input_data, tarpos, main_dfs, final, derror>>

\* one iteration of "for member in t"
ScanMember ==
    /\ dpc = "scan"
    /\ mempos <= Len(input_data[tarpos])
    /\ LET member == input_data[tarpos][mempos]
       IN IF EndsWithZip(member.name)
          THEN /\ zip_bytes' = Bound(member.bytes)
               /\ txts_to_read' = TxtNames(member.bytes)
               /\ all_txts' = all_txts \o TxtNames(member.bytes)
          ELSE UNCHANGED <<zip_bytes, txts_to_read, all_txts>>
    /\ mempos' = mempos + 1
    /\ UNCHANGED <<wvars, input_data, dpc, tarpos, futures, main_dfs, final, derror>>

\* dask_client.map(parse_zipped_text, [zip_bytes]*len(all_txts), txts_to_read):
\* one task per pair of the two argument lists, the shorter list deciding
MapTasks ==
    /\ dpc = "scan"
    /\ mempos > Len(input_data[tarpos])
    /\ IF ~zip_bytes.bound
       THEN /\ dpc' = "error"
            /\ derror' = "UnboundLocalError: zip_bytes"
            /\ UNCHANGED futures
       ELSE /\ futures' = [i \in 1..Min(Len(all_txts), Len(txts_to_read)) |->
                              [z |-> zip_bytes.v, txt |-> txts_to_read[i],
                               status |-> "pending", result |-> <<>>]]
            /\ dpc' = "tasks"
            /\ UNCHANGED derror
    /\ UNCHANGED <<wvars, input_data, tarpos, mempos, zip_bytes, txts_to_read, all_txts,
                   main_dfs, final>>

\* a future once its task has returned or raised
Settled(f, r) ==
    [z |-> f.z, txt |-> f.txt,
     status |-> IF r.ok THEN "finished" ELSE "error",
     result |-> IF r.ok THEN r.v ELSE r.exc]
\* a worker runs one pending task
RunTask ==
    /\ dpc = "tasks"
    /\ \E i \in 1..Len(futures) :
          /\ futures[i].status = "pending"
          /\ futures' = [futures EXCEPT ![i] =
                Settled(@, ParseZippedText(@.z, @.txt, strictDrop))]
    /\ UNCHANGED <<wvars, input_data, dpc, tarpos, mempos, zip_bytes, txts_to_read,
                   all_txts, main_dfs, final, derror>>

\* dask_client.submit(pl.concat, all_dfs).result(), return, all_dfs.append(this_tar_df)
Gather ==
    /\ dpc = "tasks"
    /\ \A i \in 1..Len(futures) : futures[i].status # "pending"
    /\ IF \E i \in 1..Len(futures) : futures[i].status = "error"
       THEN /\ dpc' = "error"
            /\ derror' = futures[CHOOSE i \in 1..Len(futures) :
                                    futures[i].status = "error"].result
            /\ UNCHANGED <<main_dfs, tarpos>>
       ELSE LET r == Concat([i \in 1..Len(futures) |-> futures[i].result])
            IN IF r.ok
               THEN /\ main_dfs' = Append(main_dfs, r.v)
                    /\ tarpos' = tarpos + 1
                    /\ dpc' = "main"
                    /\ UNCHANGED derror
               ELSE /\ dpc' = "error"
                    /\ derror' = r.exc
                    /\ UNCHANGED <<main_dfs, tarpos>>
    /\ UNCHANGED <<wvars, input_data, mempos, zip_bytes, txts_to_read, all_txts,
                   futures, final>>

\* all_radiosondes = all_dfs[0]; all_radiosondes.append(all_dfs[i]); write_parquet
WriteParquet ==
    /\ dpc = "main"
    /\ tarpos > Len(input_data)
    /\ IF Len(main_dfs) = 0
       THEN /\ dpc' = "error"
            /\ derror' = "IndexError: list index out of range"
            /\ UNCHANGED final
       ELSE IF Len(main_dfs) > 1
       THEN /\ dpc' = "error"
            /\ derror' = "AttributeError: 'DataFrame' object has no attribute 'append'"
            /\ UNCHANGED final
       ELSE /\ final' = main_dfs[1]
            /\ dpc' = "done"
            /\ UNCHANGED derror
    /\ UNCHANGED <<wvars, input_data, tarpos, mempos, zip_bytes, txts_to_read, all_txts,
                   futures, main_dfs>>

NextDriver == OpenTar \/ ScanMember \/ MapTasks \/ RunTask \/ Gather \/ WriteParquet

SpecDriver == InitDriver /\ [][NextDriver]_vars

----------------------------------------------------------------------------
(* Properties of the Walker (Spec) *)

\* the number of data lines between line i and the next header or the end
RECURSIVE Following(_, _)
Following(ls, i) ==
    IF i + 1 > Len(ls) \/ IsHeader(ls[i + 1]) THEN 0 ELSE 1 + Following(ls, i + 1)
\* the raw data lines of the k-th header, as the header declares them
RawGroup(ls, k) ==
    LET i == HeaderIndices(ls)[k] IN SubSeq(ls, i + 1, i + ls[i].num_rec)
CountMatches(ls, i) == Following(ls, i) = ls[i].num_rec
WellFormed(ls) ==
    /\ Len(ls) > 0
    /\ IsHeader(ls[1])
    /\ \A i \in 1..Len(ls) : IsHeader(ls[i]) => CountMatches(ls, i)
Finished == pc \in {"done", "error"}

ContractColumns ==
    <<"site", "launch_lat", "launch_lon", "launch_msl", "launch_valid_time",
      "release_time", "record_valid", "air_pressure", "geopotential_height",
      "air_temperature", "dew_point_temperature", "wind_from_direction", "wind_speed",
      "eastward_wind", "northward_wind">>

\* C1: every returned Station Table has exactly the contract's fifteen columns, in
\* the contract's order, whatever the data.
C1_ColumnContract == pc = "done" => station_df.columns = ContractColumns

\* C2: a sounding is emitted only for a header whose declared count equals the
\* number of data lines that follow it, and a text with a mismatching header never
\* returns a table: no truncated group, no header read as data, no surplus skipped.
C2_CountMismatchReported ==
    /\ \A k \in 1..Len(all_dfs) : CountMatches(lines, header_indices[k])
    /\ pc = "done" => \A i \in 1..Len(lines) : IsHeader(lines[i]) => CountMatches(lines, i)

\* the decoded geopotential heights of all data lines of a text, in line order
RECURSIVE RawHeights(_, _)
RawHeights(ls, i) ==
    IF i > Len(ls) THEN <<>>
    ELSE (IF IsHeader(ls[i]) THEN <<>> ELSE <<ls[i].geopotential_height>>)
         \o RawHeights(ls, i + 1)

\* C3: a well-formed text (first line a header, every header followed by exactly
\* its declared N >= 0 data lines) returns a table: one sounding per header, in
\* header order, the k-th with exactly its N rows, and every data line is a row
\* of the table exactly once, in line order.
C3_WellFormedConcatenation ==
    (WellFormed(lines) /\ Finished) =>
        /\ pc = "done"
        /\ Len(all_dfs) = Len(HeaderIndices(lines))
        /\ \A k \in 1..Len(all_dfs) :
              all_dfs[k].height = lines[HeaderIndices(lines)[k]].num_rec
        /\ station_df.height = Len(RawHeights(lines, 1))
        /\ \A r \in 1..station_df.height :
              FEq(station_df.data["geopotential_height"][r], F(RawHeights(lines, 1)[r]))

\* the data lines of a group that are surface records
SurfaceLines(g) == {i \in 1..Len(g) : g[i].minor_level_indicator = 1}

\* C4: every emitted sounding has at most one record with minor_level_indicator
\* 1 (two or more raise instead); with exactly one, launch_msl is that record's
\* decoded geopotential height on every row, and with none it is NaN on every row.
C4_LaunchMsl ==
    \A k \in 1..Len(all_dfs) :
        LET g == RawGroup(lines, k)
            i == CHOOSE i \in SurfaceLines(g) : TRUE
            z == g[i].geopotential_height
            msl == all_dfs[k].data["launch_msl"]
        IN /\ Cardinality(SurfaceLines(g)) <= 1
           /\ Len(msl) = lines[header_indices[k]].num_rec
           /\ SurfaceLines(g) = {} => \A r \in 1..Len(msl) : msl[r].nan
           /\ SurfaceLines(g) # {} =>
                \A r \in 1..Len(msl) :
                    IF z \in {-9999, -8888} THEN msl[r].nan ELSE FEq(msl[r], F(z))

\* a two-record sounding whose single surface record gives launch_msl 850
C4_Witness ==
    /\ pc = "done"
    /\ Len(all_dfs) >= 1
    /\ all_dfs[1].height = 2
    /\ Cardinality(SurfaceLines(RawGroup(lines, 1))) = 1
    /\ \A r \in 1..2 : FEq(all_dfs[1].data["launch_msl"][r], F(850))

----------------------------------------------------------------------------
(* Properties of the time resolution (SpecTime, SpecHeader) *)

TheHeader == lines[1]
NominalTime(h, hh) == Dt(h.valid_year, h.valid_month, h.valid_day, hh, 0)
IsSentinel(x) == x = -9999 \/ x = -8888

\* C5: in a sounding whose header carries a real hour, release_time is NaN on every
\* row when the release field is 9999, and every record that carries an elapsed
\* time e gets record_valid = base + (e // 100) h + (e % 100) min, base being the
\* release time, or the launch valid time when the release field is 9999; when no
\* record carries an elapsed time every record gets record_valid = base.
C5_RecordValid ==
    (Finished /\ TheHeader.valid_hour \in 0..23) =>
        /\ pc = "done"
        /\ \A r \in 1..TheHeader.num_rec :
              LET e == lines[1 + r].elapsed_time
                  rt == station_df.data["release_time"][r]
                  base == IF TheHeader.release_hhmm = 9999
                          THEN NominalTime(TheHeader, TheHeader.valid_hour) ELSE rt
                  rv == station_df.data["record_valid"][r]
              IN /\ TheHeader.release_hhmm = 9999 <=> rt = NaT
                 /\ ~IsSentinel(e) => rv = AddDelta(base, 0, e \div 100, e % 100)
                 /\ (\A q \in 1..TheHeader.num_rec : IsSentinel(lines[1 + q].elapsed_time))
                       => rv = base

\* the calendar day after (y, m, d)
NextDay(t) ==
    IF t.d < DaysInMonth(t.y, t.m) THEN [y |-> t.y, m |-> t.m, d |-> t.d + 1]
    ELSE IF t.m < 12 THEN [y |-> t.y, m |-> t.m + 1, d |-> 1]
    ELSE [y |-> t.y + 1, m |-> 1, d |-> 1]
DecodedReleaseHour(h) == h.release_hhmm \div 100
DecodedReleaseMinute(h) == IF h.release_hhmm % 100 = 99 THEN 0 ELSE h.release_hhmm % 100
IsNominalMidnight(h) == h.valid_hour = 0 \/ h.valid_hour = 99

\* C6: a header whose nominal hour is 0 (also when it is the unknown-hour code 99,
\* read as 0) and whose release field is not 9999 and decodes to an hour >= 21
\* yields a sounding whose release_time has the decoded hour and minute (minute 99
\* read as 00) on the day before the nominal valid date.
C6_LateReleasePreviousDay ==
    (Finished /\ IsNominalMidnight(TheHeader) /\ TheHeader.release_hhmm # 9999
        /\ DecodedReleaseHour(TheHeader) >= 21) =>
        /\ pc = "done"
        /\ \A r \in 1..station_df.height :
              LET rt == station_df.data["release_time"][r]
              IN /\ rt # NaT
                 /\ rt.hh = DecodedReleaseHour(TheHeader)
                 /\ rt.mi = DecodedReleaseMinute(TheHeader)
                 /\ NextDay(rt) = [y |-> TheHeader.valid_year, m |-> TheHeader.valid_month,
                                   d |-> TheHeader.valid_day]

\* C10: a header whose valid-hour field is 99 is not rejected: its sounding is
\* emitted with launch_valid_time at 00:00 of the header's year, month and day.
C10_UnknownHourNormalised ==
    (Finished /\ TheHeader.valid_hour = 99) =>
        /\ pc = "done"
        /\ \A r \in 1..station_df.height :
              station_df.data["launch_valid_time"][r] = NominalTime(TheHeader, 0)

----------------------------------------------------------------------------
(* Properties of the decoder (SpecDecode) *)

\* the value a raw field must decode to: NaN for a sentinel, else raw / scale
Expect(raw, scale) == IF IsSentinel(raw) THEN NaN
                      ELSE [nan |-> FALSE, n |-> raw, d |-> scale]
ExpectDewPoint(l) ==
    IF IsSentinel(l.air_temperature) \/ IsSentinel(l.dewpoint_depression) THEN NaN
    ELSE [nan |-> FALSE, n |-> l.air_temperature - l.dewpoint_depression, d |-> 10]
\* the test records blow from 270 degrees: u = speed, v = 0
ExpectU(l) ==
    IF IsSentinel(l.wind_speed) \/ IsSentinel(l.wind_from_direction) THEN NaN
    ELSE [nan |-> FALSE, n |-> l.wind_speed, d |-> 10]
ExpectV(l) ==
    IF IsSentinel(l.wind_speed) \/ IsSentinel(l.wind_from_direction) THEN NaN
    ELSE F(0)
ExpectCell(c, l) ==
    CASE c = "elapsed_time" -> Expect(l.elapsed_time, 1)
      [] c = "air_pressure" -> Expect(l.air_pressure, 100)
      [] c = "geopotential_height" -> Expect(l.geopotential_height, 1)
      [] c = "air_temperature" -> Expect(l.air_temperature, 10)
      [] c = "relative_humidity" -> Expect(l.relative_humidity, 1)
      [] c = "wind_from_direction" -> Expect(l.wind_from_direction, 1)
      [] c = "wind_speed" -> Expect(l.wind_speed, 10)
      [] c = "dew_point_temperature" -> ExpectDewPoint(l)
      [] c = "eastward_wind" -> ExpectU(l)
      [] c = "northward_wind" -> ExpectV(l)
DecodedColumns == {"elapsed_time", "air_pressure", "geopotential_height",
                   "air_temperature", "relative_humidity", "wind_from_direction",
                   "wind_speed", "dew_point_temperature", "eastward_wind",
                   "northward_wind"}

\* C7: in every emitted sounding, every cell of every column decoded or derived from
\* the numeric fields is NaN when a raw field it comes from is -9999 or -8888, and
\* is the converted raw value otherwise; record_valid of a record whose elapsed
\* time is a sentinel is the base time, not an offset computed from the sentinel.
C7_SentinelsBecomeNaN ==
    \A k \in 1..Len(all_dfs) :
        LET g == RawGroup(lines, k)
            df == all_dfs[k]
        IN /\ \A c \in DecodedColumns \cap Cols(df) : \A r \in 1..df.height :
                 FSame(df.data[c][r], ExpectCell(c, g[r]))
                 /\ (df.data[c][r].nan <=> ExpectCell(c, g[r]).nan)
           /\ \A r \in 1..df.height :
                 IsSentinel(g[r].elapsed_time) =>
                    df.data["record_valid"][r] = df.data["release_time"][r]

\* a two-row sounding whose first row has a sentinel pressure and wind speed
\* (NaN pressure and wind components) beside a complete second row
C7_Witness ==
    /\ pc = "done"
    /\ station_df.height = 2
    /\ IsSentinel(lines[2].air_pressure) /\ IsSentinel(lines[2].wind_speed)
    /\ ~IsSentinel(lines[2].air_temperature)
    /\ station_df.data["air_pressure"][1].nan
    /\ station_df.data["eastward_wind"][1].nan
    /\ FEq(station_df.data["air_pressure"][2], F(850))
    /\ FEq(station_df.data["air_temperature"][1], F(12))

----------------------------------------------------------------------------
(* Properties of the driver (SpecDriver) *)

RunEnded == dpc \in {"done", "error"}
\* the positions <<tar, member, entry>> of the station text members of the input
StationMembers ==
    {p \in (1..Len(input_data)) \X (1..MaxMembers) \X (1..MaxTxts) :
        /\ p[2] <= Len(input_data[p[1]])
        /\ EndsWithZip(input_data[p[1]][p[2]].name)
        /\ p[3] <= Len(input_data[p[1]][p[2]].bytes)
        /\ EndsWithTxt(input_data[p[1]][p[2]].bytes[p[3]])}
MemberText(p) == TextOf(input_data[p[1]][p[2]].bytes[p[3]])
MemberParses(p) == ParseStation(MemberText(p), strictDrop).ok
MemberTable(p) == ParseStation(MemberText(p), strictDrop).v
Sites == {"USM0007223", "USM0007265", "USM0007250"}
CountSite(df, st) == Cardinality({r \in 1..df.height : df.data["site"][r] = st})
RECURSIVE RowsOf(_, _)
RowsOf(P, st) ==
    IF P = {} THEN 0
    ELSE LET p == CHOOSE q \in P : TRUE
         IN CountSite(MemberTable(p), st) + RowsOf(P \ {p}, st)

\* every tar holds a zip member and every zip member a station text
ArchivesPopulated ==
    /\ Len(input_data) >= 1
    /\ \A t \in 1..Len(input_data) :
          /\ \E m \in 1..Len(input_data[t]) : EndsWithZip(input_data[t][m].name)
          /\ \A m \in 1..Len(input_data[t]) :
                EndsWithZip(input_data[t][m].name) =>
                    \E k \in 1..Len(input_data[t][m].bytes) :
                        EndsWithTxt(input_data[t][m].bytes[k])
\* the run is over one tar that holds one zip member
SingleZipRun ==
    /\ Len(input_data) = 1
    /\ Cardinality({m \in 1..Len(input_data[1]) : EndsWithZip(input_data[1][m].name)}) = 1

\* C8: in a run over archives that each hold station zips, while the tasks of a
\* tar run there is exactly one task per station text member of that tar, each
\* against the zip that holds its text; and when every station parses the run ends
\* with a Final Table holding, for every station, the rows of the Station Tables of
\* all its members: none omitted, none twice.
C8_FinalTableIsEveryStation ==
    ArchivesPopulated =>
        /\ dpc = "tasks" =>
              /\ Len(futures) = Cardinality({p \in StationMembers : p[1] = tarpos})
              /\ \A i \in 1..Len(futures) : futures[i].txt \in Range(futures[i].z)
        /\ (RunEnded /\ \A p \in StationMembers : MemberParses(p)) =>
              /\ dpc = "done"
              /\ \A st \in Sites : CountSite(final, st) = RowsOf(StationMembers, st)

\* C9: a run in which some station fails to parse and some other parses still
\* completes, and its Final Table holds the rows of every station that parses
\* (stated for a run over one tar holding one zip, where every station text is
\* dispatched to a task).
C9_FailureIsolated ==
    (/\ RunEnded
     /\ SingleZipRun
     /\ \E p \in StationMembers : ~MemberParses(p)
     /\ \E p \in StationMembers : MemberParses(p)) =>
        /\ dpc = "done"
        /\ \A st \in Sites :
              CountSite(final, st) = RowsOf({p \in StationMembers : MemberParses(p)}, st)

====
